---- MODULE Spec2Model ----
(***************************************************************************)
(* The match engine of AgentDiplomacy: GameState (territories, agents,     *)
(* commit-reveal moves, battles, reinforcements, win check) driven by      *)
(* PhaseManager (phase state machine on timers).  Every action is one      *)
(* synchronous JavaScript handler: an API call or a timer callback, with   *)
(* every listener it runs (EventEmitter.emit is synchronous).              *)
(***************************************************************************)
EXTENDS Integers, Sequences, FiniteSets, TLC

\* ---- bounds of the model ------------------------------------------------
NumAgents == 2
NumTerr == 4
MaxTurns == 2
Grain == 2
NumTargets == 1
\* handler invocations (API calls and timer callbacks) explored per match
MaxOps == 5

\* ---- values --------------------------------------------------------------
Null == 0
AgentIds == 1..NumAgents
Stranger == NumAgents + 1
Territories == 1..NumTerr
Undef == 0 - 1

\* ---- the map (GameState.getMapDefinitions, reduced to a ring) -----------
Continents == << [bonus |-> 2, territories |-> {1, 2}],
                 [bonus |-> 3, territories |-> Territories \ {1, 2}] >>

\* ---- move payloads -------------------------------------------------------
Mv(ty, fr, to, ar) == [type |-> ty, from |-> fr, to |-> to, armies |-> ar]

\* the payloads callers submit: attacks on the first NumTargets territories
\* (from the ring successor) and a malformed payload (armies 0)
AttackMoves == { Mv("attack", ((to % NumTerr) + 1), to, ar) : to \in 1..NumTargets, ar \in {2} }

ValidMoves == AttackMoves

InvalidMoves == { Mv("defend", Null, Null, 0) }

Moves == ValidMoves \cup InvalidMoves

\* ---- generic helpers -----------------------------------------------------
Max2(a, b) == IF a >= b THEN a ELSE b

RECURSIVE SortedSeq(_)
SortedSeq(S) ==
  IF S = {} THEN << >>
  ELSE LET m == CHOOSE x \in S : \A y \in S : x <= y
       IN << m >> \o SortedSeq(S \ {m})

RECURSIVE SeqSum(_)
SeqSum(q) == IF q = << >> THEN 0 ELSE Head(q) + SeqSum(Tail(q))

Count(q, x) == Len(SelectSeq(q, LAMBDA e : e = x))

Bind(S, F(_)) == UNION { (IF s.err THEN {s} ELSE F(s)) : s \in S }

\* ordered Map keyed by agent id: a sequence of [agentId, move] entries
MapHas(m, k) == \E i \in 1..Len(m) : m[i].agentId = k

MapGet(m, k) == m[CHOOSE i \in 1..Len(m) : m[i].agentId = k].move

MapSet(m, k, v) ==
  IF MapHas(m, k)
  THEN [i \in 1..Len(m) |-> IF m[i].agentId = k THEN [agentId |-> k, move |-> v] ELSE m[i]]
  ELSE Append(m, [agentId |-> k, move |-> v])

MapKeys(m) == { m[i].agentId : i \in 1..Len(m) }

\* ---- ghost: the engine's steps of the current turn, in order -------------
Log(s, step) == [s EXCEPT !.tlog = Append(@, step)]

Throw(s) == [s EXCEPT !.err = TRUE]

Catch(s) == [s EXCEPT !.err = FALSE]

\* ---- GameState -----------------------------------------------------------
getActiveAgents(s) ==
  SortedSeq({ a \in DOMAIN s.agents : ~ s.agents[a].eliminated })

validateMove(move) ==
  /\ move.type \in {"attack", "defend", "support", "move", "none"}
  /\ (move.type \in {"attack", "move"}) =>
        (move.from \in Territories /\ move.to \in Territories)
  /\ (move.armies # Undef) => (move.armies >= 1)

distributeTerritories_toFirst(s, perm) ==
  LET agentIds == SortedSeq(DOMAIN s.agents)
  IN [s EXCEPT
        !.territories = [t \in Territories |-> [owner |-> agentIds[1], armies |-> 3]],
        !.agents = [a \in DOMAIN s.agents |->
            [s.agents[a] EXCEPT !.territories = IF a = agentIds[1] THEN @ \o perm ELSE @,
                                !.armies = IF a = agentIds[1] THEN @ + 3 * Len(perm) ELSE @,
                                !.resources = 10]]]

\* Fisher-Yates yields some permutation perm of the territory ids
distributeTerritories(s, perm) ==
  LET agentIds == SortedSeq(DOMAIN s.agents)
      ownerOf(i) == agentIds[((i - 1) % Len(agentIds)) + 1]
      got(a) == SelectSeq(perm, LAMBDA t : \E i \in 1..Len(perm) : perm[i] = t /\ ownerOf(i) = a)
  IN [s EXCEPT
        !.territories = [t \in Territories |->
            [owner |-> ownerOf(CHOOSE i \in 1..Len(perm) : perm[i] = t), armies |-> 3]],
        !.agents = [a \in DOMAIN s.agents |->
            [s.agents[a] EXCEPT !.territories = @ \o got(a),
                                !.armies = @ + 3 * Len(got(a)),
                                !.resources = 10]]]

calculateReinforcements_spendAll(s, agentId) ==
  IF agentId \notin DOMAIN s.agents \/ s.agents[agentId].eliminated
  THEN [val |-> 0, st |-> s]
  ELSE LET agent == s.agents[agentId]
           base == Max2(3, Len(agent.territories) \div 3)
           ownsAll(c) == \A tid \in Continents[c].territories : s.territories[tid].owner = agentId
           bonus == SeqSum([c \in 1..Len(Continents) |->
                              IF ownsAll(c) THEN Continents[c].bonus ELSE 0])
           resourceBonus == agent.resources \div 5
       IN [val |-> base + bonus + resourceBonus,
           st |-> [s EXCEPT !.agents[agentId].resources = 0]]

calculateReinforcements(s, agentId) ==
  IF agentId \notin DOMAIN s.agents \/ s.agents[agentId].eliminated
  THEN [val |-> 0, st |-> s]
  ELSE LET agent == s.agents[agentId]
           base == Max2(3, Len(agent.territories) \div 3)
           ownsAll(c) == \A tid \in Continents[c].territories : s.territories[tid].owner = agentId
           bonus == SeqSum([c \in 1..Len(Continents) |->
                              IF ownsAll(c) THEN Continents[c].bonus ELSE 0])
           resourceBonus == agent.resources \div 5
       IN [val |-> base + bonus + resourceBonus,
           st |-> [s EXCEPT !.agents[agentId].resources = @ - resourceBonus * 5]]

revealMoves(s) ==
  IF s.phase # "resolve" THEN Throw(s)
  ELSE Log([s EXCEPT !.revealedMoves = s.moves], "reveal")

attackersOf_drawn(s, tid) ==
  LET atk == SelectSeq(s.revealedMoves, LAMBDA e : e.move.type = "attack" /\ e.move.to = tid)
  IN [i \in 1..Len(atk) |->
        [agentId |-> atk[i].agentId,
         armies |-> IF atk[i].move.armies = Undef THEN 1
                    ELSE IF atk[i].move.armies <= s.agents[atk[i].agentId].armies
                         THEN atk[i].move.armies
                         ELSE Max2(1, s.agents[atk[i].agentId].armies)]]

\* attackers of territory tid among the revealed moves, in Map order
attackersOf(s, tid) ==
  LET atk == SelectSeq(s.revealedMoves, LAMBDA e : e.move.type = "attack" /\ e.move.to = tid)
  IN [i \in 1..Len(atk) |->
        [agentId |-> atk[i].agentId,
         armies |-> IF atk[i].move.armies = Undef THEN 1 ELSE atk[i].move.armies]]

\* contested territories in the order the battles Map gets its keys
RECURSIVE battleOrder(_, _)
battleOrder(rev, seen) ==
  IF rev = << >> THEN << >>
  ELSE LET e == Head(rev)
       IN IF e.move.type = "attack" /\ e.move.to \notin seen
          THEN << e.move.to >> \o battleOrder(Tail(rev), seen \cup {e.move.to})
          ELSE battleOrder(Tail(rev), seen)

\* the first attacker, whatever its armies
strongestAttacker_first(atts) == atts[1].agentId

\* Object.entries(attackerForces).sort((a, b) => b[1] - a[1])[0][0]
strongestAttacker(atts) ==
  atts[CHOOSE i \in 1..Len(atts) :
         /\ \A j \in 1..Len(atts) : atts[j].armies <= atts[i].armies
         /\ \A j \in 1..(i - 1) : atts[j].armies < atts[i].armies].agentId

\* the largest power of two not above k (the binade of the double k)
RECURSIVE Pow2Below(_)
Pow2Below(k) == IF k < 2 THEN 1 ELSE 2 * Pow2Below(k \div 2)

\* Math.floor(x * 0.6) in doubles: 0.6 is stored as 0.6 - 0.2/2^53; where
\* k = 6x/10 is an integer the product falls short of k by (k/3)/2^53, less
\* than half the spacing of the doubles below k, and rounds to k
FloorTimes06(x) == (6 * x) \div 10

\* Math.floor(x * 0.7) in doubles: 0.7 is stored as 0.7 - 0.4/2^53; where
\* k = 7x/10 is an integer the product falls short of k by (4k/7)/2^53 and
\* rounds to the double below k when that exceeds half the spacing
\* 2^e/2^52 of the doubles of k's binade, i.e. when 4k > 7 * 2^e
FloorTimes07(x) ==
  LET k == (7 * x) \div 10
  IN IF x % 10 = 0 /\ 4 * k > 7 * Pow2Below(k) THEN k - 1 ELSE k

\* attackRoll = (r1 / Grain) * totalAttack, defenseRoll = (r2 / Grain) * defenderArmies * 1.5
resolveBattle(s, tid, r1, r2) ==
  LET atts == attackersOf(s, tid)
      totalAttack == SeqSum([i \in 1..Len(atts) |-> atts[i].armies])
      defenderArmies == s.territories[tid].armies
      attackWins == 2 * r1 * totalAttack > 3 * r2 * defenderArmies
  IN [winner |-> IF attackWins THEN strongestAttacker(atts) ELSE s.territories[tid].owner,
      remainingArmies |-> IF attackWins THEN Max2(1, FloorTimes06(totalAttack))
                          ELSE Max2(1, FloorTimes07(defenderArmies))]

applyBattle(s, tid, result) ==
  LET territory == s.territories[tid]
  IN IF result.winner # territory.owner
     THEN LET s1 == IF territory.owner \in DOMAIN s.agents
                    THEN [s EXCEPT !.agents[territory.owner].territories =
                                       SelectSeq(@, LAMBDA t : t # tid),
                                   !.agents[territory.owner].armies = @ - territory.armies]
                    ELSE s
          IN IF result.winner \notin DOMAIN s.agents
             THEN Throw(s1)
             ELSE [s1 EXCEPT !.agents[result.winner].territories = Append(@, tid),
                             !.agents[result.winner].armies = @ + result.remainingArmies,
                             !.territories[tid] = [owner |-> result.winner,
                                                   armies |-> result.remainingArmies]]
     ELSE [s EXCEPT !.territories[tid].armies = result.remainingArmies]

RECURSIVE battleLoop(_, _)
battleLoop(s, order) ==
  IF order = << >> \/ s.err THEN {s}
  ELSE UNION { battleLoop(applyBattle(s, Head(order), result), Tail(order)) :
                 result \in { resolveBattle(s, Head(order), r1, r2) :
                                r1 \in 0..(Grain - 1), r2 \in 0..(Grain - 1) } }

resolveBattles(s) ==
  battleLoop(Log(s, "resolve"), battleOrder(s.revealedMoves, {}))

winResult_dominationFirst(s) ==
  LET activeAgents == getActiveAgents(s)
      dominant == { i \in 1..Len(activeAgents) :
                      5 * Len(s.agents[activeAgents[i]].territories) >= 3 * NumTerr }
  IN IF dominant # {}
     THEN [type |-> "domination",
           winner |-> activeAgents[CHOOSE i \in dominant : \A j \in dominant : i <= j]]
     ELSE IF Len(activeAgents) = 1
     THEN [type |-> "elimination", winner |-> activeAgents[1]]
     ELSE IF s.turn >= s.maxTurns
     THEN IF Len(activeAgents) = 0 THEN [type |-> "throw", winner |-> Null]
          ELSE [type |-> "turns", winner |-> activeAgents[1]]
     ELSE [type |-> "none", winner |-> Null]

winResult_firstActive(s) ==
  LET activeAgents == getActiveAgents(s)
      dominant == { i \in 1..Len(activeAgents) :
                      5 * Len(s.agents[activeAgents[i]].territories) >= 3 * NumTerr }
  IN IF Len(activeAgents) = 1
     THEN [type |-> "elimination", winner |-> activeAgents[1]]
     ELSE IF dominant # {}
     THEN [type |-> "domination",
           winner |-> activeAgents[CHOOSE i \in dominant : \A j \in dominant : i <= j]]
     ELSE IF s.turn >= s.maxTurns
     THEN IF Len(activeAgents) = 0 THEN [type |-> "throw", winner |-> Null]
          ELSE [type |-> "turns", winner |-> activeAgents[1]]
     ELSE [type |-> "none", winner |-> Null]

\* the result checkWinCondition returns, before it records it
\* a win check whose turn limit is passed one turn late
winResult_lateLimit(s) ==
  LET activeAgents == getActiveAgents(s)
      dominant == { i \in 1..Len(activeAgents) :
                      5 * Len(s.agents[activeAgents[i]].territories) >= 3 * NumTerr }
  IN IF Len(activeAgents) = 1
     THEN [type |-> "elimination", winner |-> activeAgents[1]]
     ELSE IF dominant # {}
     THEN [type |-> "domination",
           winner |-> activeAgents[CHOOSE i \in dominant : \A j \in dominant : i <= j]]
     ELSE IF s.turn > s.maxTurns
     THEN [type |-> "turns", winner |-> activeAgents[1]]
     ELSE [type |-> "none", winner |-> Null]

winResult(s) ==
  LET activeAgents == getActiveAgents(s)
      totalTerritories == NumTerr
      dominant == { i \in 1..Len(activeAgents) :
                      5 * Len(s.agents[activeAgents[i]].territories) >= 3 * totalTerritories }
      most == CHOOSE i \in 1..Len(activeAgents) :
                /\ \A j \in 1..Len(activeAgents) :
                     Len(s.agents[activeAgents[j]].territories) <= Len(s.agents[activeAgents[i]].territories)
                /\ \A j \in 1..(i - 1) :
                     Len(s.agents[activeAgents[j]].territories) < Len(s.agents[activeAgents[i]].territories)
  IN IF Len(activeAgents) = 1
     THEN [type |-> "elimination", winner |-> activeAgents[1]]
     ELSE IF dominant # {}
     THEN [type |-> "domination",
           winner |-> activeAgents[CHOOSE i \in dominant : \A j \in dominant : i <= j]]
     ELSE IF s.turn >= s.maxTurns
     THEN IF Len(activeAgents) = 0 THEN [type |-> "throw", winner |-> Null]
          ELSE [type |-> "turns", winner |-> activeAgents[most]]
     ELSE [type |-> "none", winner |-> Null]

GameState_endTurn(s) ==
  [s EXCEPT !.turn = @ + 1, !.moves = << >>, !.revealedMoves = << >>, !.tlog = << >>]

\* default durations: negotiation 15 s, commit 10 s, resolve 8 s, warnings after 5 s
NoTimer == [cb |-> "none", armed |-> "none", live |-> FALSE]

setTimer(s, key, cb, forPhase) ==
  [s EXCEPT !.leaked = IF s.timers[key].live THEN Append(@, s.timers[key]) ELSE @,
            !.timers[key] = [cb |-> cb, armed |-> forPhase, live |-> TRUE]]

clearTimers(s) == [s EXCEPT !.timers = [phase |-> NoTimer, warning |-> NoTimer]]

setupNegotiationPhase(s) ==
  setTimer(setTimer(s, "phase", "advancePhase", "negotiation"), "warning", "warning", "negotiation")

\* a commit phase that arms no timer
setupCommitPhase_noTimer(s) == s

setupCommitPhase(s) ==
  setTimer(setTimer(s, "phase", "advancePhase", "commit"), "warning", "warning", "commit")

distributeReinforcementsTo(s, agentId) ==
  LET r == calculateReinforcements(s, agentId)
      terr == r.st.agents[agentId].territories
      perTerritory == IF Len(terr) > 0 THEN r.val \div Len(terr) ELSE 0
  IN [r.st EXCEPT !.agents[agentId].armies = @ + r.val,
                  !.territories = [t \in Territories |->
                      [@[t] EXCEPT !.armies = @ + perTerritory * Count(terr, t)]]]

RECURSIVE reinforceLoop(_, _)
reinforceLoop(s, as) ==
  IF as = << >> THEN s
  ELSE reinforceLoop(distributeReinforcementsTo(s, Head(as)), Tail(as))

distributeReinforcements(s) ==
  reinforceLoop(Log(s, "reinforce"), getActiveAgents(s))

\* ---- the re-entrant core: commitMove -> allMovesCommitted -> advancePhase
\* ---- -> transitionTo -> setPhase -> phaseChange listeners -> commitMove
RECURSIVE commitMove(_, _, _), advancePhase(_), transitionTo(_, _), emitPhaseChange(_, _, _)
RECURSIVE commitDefaultLoop(_, _), PhaseManager_endTurn(_), startGame(_)

\* a phase manager that does not listen for allMovesCommitted
onAllMovesCommitted_deaf(s) == {s}

\* PhaseManager constructor: gameState.on('allMovesCommitted', ...)
onAllMovesCommitted(s) ==
  IF s.phase = "commit" THEN advancePhase(s) ELSE {s}

\* this.emit('allMovesCommitted'); ghosts: signals counts the emissions of the
\* running handler, uncommitted collects the active participants that had no
\* stored commitment at an emission
emitAllMovesCommitted(s) ==
  [s EXCEPT !.signals = @ + 1,
            !.uncommitted = @ \cup { a \in DOMAIN s.agents :
                                       ~ s.agents[a].eliminated /\ ~ MapHas(s.moves, a) }]

\* a commitMove without the phase check
commitMove_anyPhase(s, agentId, move) ==
  IF ~ validateMove(move) THEN {Throw(s)}
  ELSE LET s1 == [s EXCEPT !.moves = MapSet(@, agentId, move)]
       IN IF Len(s1.moves) = Len(getActiveAgents(s1))
          THEN onAllMovesCommitted(emitAllMovesCommitted(s1))
          ELSE {s1}

commitMove(s, agentId, move) ==
  IF s.phase # "commit" THEN {Throw(s)}
  ELSE IF ~ validateMove(move) THEN {Throw(s)}
  ELSE LET s1 == [s EXCEPT !.moves = MapSet(@, agentId, move)]
       IN IF Len(s1.moves) = Len(getActiveAgents(s1))
          THEN onAllMovesCommitted(emitAllMovesCommitted(s1))
          ELSE {s1}

\* the moves a built-in personality may decide on: an attack from an owned
\* territory on a neighbour it does not own, a defend, or a malformed move
BuiltinMoves(s, a) ==
  { m \in AttackMoves : /\ s.territories[m.from].owner = a
                        /\ s.territories[m.to].owner # a }
  \cup { Mv("defend", Null, Null, 3), Mv("defend", Null, Null, 0) }

\* BaseAgent.commitMove: decideMove (which calls calculateReinforcements),
\* then gameState.commitMove inside try/catch
agentCommitMove(s, a) ==
  LET r == calculateReinforcements(s, a)
  IN UNION { { Catch(x) : x \in commitMove(r.st, a, m) } : m \in BuiltinMoves(r.st, a) }

\* gameState.on('phaseChange', ...) of participant a: GameManager.createGame
\* makes every participant a scripted personality whose onPhaseChange commits
\* synchronously on entry to commit (negotiate leaves the engine state alone)
onPhaseChange(s, a, to) ==
  IF to = "commit" THEN agentCommitMove(s, a) ELSE {s}

emitPhaseChange(s, ls, to) ==
  IF ls = << >> THEN {s}
  ELSE UNION { emitPhaseChange(x, Tail(ls), to) : x \in onPhaseChange(s, Head(ls), to) }

\* ghost edges: the changes of the phase value made by the running handler
setPhase(s, p) ==
  emitPhaseChange([s EXCEPT !.phase = p,
                            !.edges = IF s.phase # p THEN @ \cup {<< s.phase, p >>} ELSE @],
                  SortedSeq(DOMAIN s.agents), p)

setupResolvePhase(s) ==
  LET s1 == revealMoves(s)
  IN IF s1.err THEN {s1}
     ELSE { IF x.err THEN x
            ELSE setTimer(distributeReinforcements(x), "phase", "endTurn", "resolve")
            : x \in resolveBattles(s1) }

handleGameEnd(s) ==
  [clearTimers(s) EXCEPT !.isRunning = FALSE]

transitionTo(s, p) ==
  LET s0 == [s EXCEPT !.overlap = @ \/ (s.depth > 0), !.depth = @ + 1]
      after == Bind(setPhase(clearTimers(s0), p), LAMBDA x :
                 CASE p = "negotiation" -> {setupNegotiationPhase(x)}
                   [] p = "commit" -> {setupCommitPhase(x)}
                   [] p = "resolve" -> setupResolvePhase(x)
                   [] p = "ended" -> {handleGameEnd(x)}
                   [] OTHER -> {x})
  IN { [x EXCEPT !.depth = s.depth] : x \in after }

Perms == { p \in [Territories -> Territories] : \A i, j \in Territories : p[i] = p[j] => i = j }

\* the shuffle outcomes explored: the identity and the swap of positions 2 and 3
Shuffles == { p \in Perms : \A i \in Territories : (i \notin {2, 3} => p[i] = i) }

startGame(s) ==
  IF Cardinality(DOMAIN s.agents) < 2 THEN {Throw(s)}
  ELSE UNION { transitionTo([distributeTerritories(s, perm) EXCEPT !.isRunning = TRUE],
                            "negotiation") : perm \in Shuffles }

createDefaultMove(val) == Mv("defend", Null, Null, val)

\* a commit timeout that synthesises nothing
commitDefaultLoop_none(s, as) == {s}

commitDefaultLoop(s, as) ==
  IF as = << >> THEN {s}
  ELSE IF MapHas(s.moves, Head(as)) THEN commitDefaultLoop(s, Tail(as))
  ELSE LET r == calculateReinforcements(s, Head(as))
       IN UNION { commitDefaultLoop(Catch(x), Tail(as))
                  : x \in commitMove(r.st, Head(as), createDefaultMove(r.val)) }

commitDefaultMoves(s) == commitDefaultLoop(s, getActiveAgents(s))

checkWinCondition(s) ==
  LET w == winResult(s)
      s1 == Log(s, "wincheck")
  IN IF w.type = "none" THEN {s1}
     ELSE IF w.type = "throw" THEN {Throw(s1)}
     ELSE setPhase([s1 EXCEPT !.winner = w.winner], "ended")

PhaseManager_endTurn(s) ==
  IF winResult(s).type # "none" THEN checkWinCondition(s)
  ELSE Bind(checkWinCondition(s), LAMBDA x : transitionTo(GameState_endTurn(x), "negotiation"))

advancePhase(s) ==
  CASE s.phase = "lobby" -> startGame(s)
    [] s.phase = "negotiation" -> transitionTo(s, "commit")
    [] s.phase = "commit" -> Bind(commitDefaultMoves(s), LAMBDA x : transitionTo(x, "resolve"))
    [] s.phase = "resolve" -> PhaseManager_endTurn(s)
    [] OTHER -> {s}

pause(s) == clearTimers(s)

resume(s) == transitionTo(s, s.phase)

stop(s) == setPhase([clearTimers(s) EXCEPT !.isRunning = FALSE], "ended")

\* ---- snapshots -----------------------------------------------------------
getPublicState(s) ==
  [phase |-> s.phase, turn |-> s.turn, maxTurns |-> s.maxTurns,
   agents |-> [a \in DOMAIN s.agents |->
                 [territories |-> Len(s.agents[a].territories),
                  armies |-> s.agents[a].armies,
                  resources |-> s.agents[a].resources,
                  eliminated |-> s.agents[a].eliminated]],
   territories |-> s.territories,
   winner |-> s.winner]

\* a private snapshot that does not filter the revealed moves
getAgentState_unfiltered(s, agentId) ==
  [phase |-> getPublicState(s).phase, turn |-> getPublicState(s).turn,
   maxTurns |-> getPublicState(s).maxTurns, agents |-> getPublicState(s).agents,
   territories |-> getPublicState(s).territories, winner |-> getPublicState(s).winner,
   myTerritories |-> s.agents[agentId].territories,
   myResources |-> s.agents[agentId].resources,
   myCommitment |-> MapHas(s.moves, agentId),
   revealedMoves |-> s.revealedMoves]

getAgentState(s, agentId) ==
  [phase |-> getPublicState(s).phase, turn |-> getPublicState(s).turn,
   maxTurns |-> getPublicState(s).maxTurns, agents |-> getPublicState(s).agents,
   territories |-> getPublicState(s).territories, winner |-> getPublicState(s).winner,
   myTerritories |-> s.agents[agentId].territories,
   myResources |-> s.agents[agentId].resources,
   myCommitment |-> MapHas(s.moves, agentId),
   revealedMoves |-> SelectSeq(s.revealedMoves,
                        LAMBDA m : s.phase = "resolve" \/ m.agentId = agentId)]

\* ---- ReputationEngine ------------------------------------------------------
\* initializeAgent: the record of a participant (name, history and the
\* timestamps carry no behaviour and are left out)
NewReputation ==
  [trustScore |-> 50, dealsMade |-> 0, dealsKept |-> 0, dealsBroken |-> 0,
   alliancesHonored |-> 0, alliancesBroken |-> 0,
   betrayals |-> << >>, betrayedBy |-> << >>,
   consistencyScore |-> 50, aggressionScore |-> 50]

\* new ReputationEngine() followed by initializeAgent for every participant
NewEngine ==
  [agentReputations |-> [a \in AgentIds |-> NewReputation],
   deals |-> << >>, alliances |-> << >>]

\* ---- state ---------------------------------------------------------------
VARIABLES phase, turn, maxTurns, winner, agents, territories, moves, revealedMoves,
          timers, leaked, isRunning, crashed,
          lastOp, threw, paused, tlog, overlap, signals, uncommitted, edges, ops, rolls, ret, reputation

vars == << phase, turn, maxTurns, winner, agents, territories, moves, revealedMoves,
           timers, leaked, isRunning, crashed,
           lastOp, threw, paused, tlog, overlap, signals, uncommitted, edges, ops, rolls, ret, reputation >>

\* the state a handler starts from
Cur ==
  [phase |-> phase, turn |-> turn, maxTurns |-> maxTurns, winner |-> winner,
   agents |-> agents, territories |-> territories, moves |-> moves,
   revealedMoves |-> revealedMoves, timers |-> timers, leaked |-> leaked,
   isRunning |-> isRunning, tlog |-> tlog,
   err |-> FALSE, depth |-> 0, overlap |-> FALSE, signals |-> 0, uncommitted |-> {}, edges |-> {}]

TimerOps == {"phaseTimer", "warningTimer", "leakedTimer"}

\* ghost paused: pause() was the last control operation called on the match
ControlOps == {"startGame", "advancePhase", "resume", "stop"}

\* the state a handler leaves; an exception that escapes a timer callback
\* is an uncaught exception and ends the process
Effects(s, op) ==
  /\ phase' = s.phase /\ turn' = s.turn /\ maxTurns' = s.maxTurns /\ winner' = s.winner
  /\ agents' = s.agents /\ territories' = s.territories /\ moves' = s.moves
  /\ revealedMoves' = s.revealedMoves /\ timers' = s.timers /\ leaked' = s.leaked
  /\ isRunning' = s.isRunning
  /\ tlog' = s.tlog /\ overlap' = s.overlap /\ signals' = s.signals /\ uncommitted' = s.uncommitted
  /\ edges' = s.edges
  /\ paused' = IF op = "pause" THEN TRUE
               ELSE IF op \in ControlOps THEN FALSE ELSE paused
  /\ crashed' = (op \in TimerOps /\ s.err)
  /\ lastOp' = op /\ threw' = s.err

\* one handler invocation within the explored horizon
Install(s, op) ==
  /\ ops < MaxOps /\ ops' = ops + 1 /\ UNCHANGED << rolls, ret, reputation >>
  /\ Effects(s, op)

\* GameManager.createGame: map initialised, agents added, phase lobby
Init ==
  /\ phase = "lobby" /\ turn = 1 /\ maxTurns = MaxTurns /\ winner = Null
  /\ agents = [a \in AgentIds |->
                 [territories |-> << >>, armies |-> 0, resources |-> 0, eliminated |-> FALSE]]
  /\ territories = [t \in Territories |-> [owner |-> Null, armies |-> 0]]
  /\ moves = << >> /\ revealedMoves = << >>
  /\ timers = [phase |-> NoTimer, warning |-> NoTimer] /\ leaked = << >>
  /\ isRunning = FALSE /\ crashed = FALSE /\ lastOp = "createGame" /\ threw = FALSE
  /\ paused = FALSE /\ tlog = << >> /\ overlap = FALSE /\ signals = 0 /\ uncommitted = {} /\ edges = {} /\ ops = 0 /\ rolls = << >> /\ ret = << >> /\ reputation = NewEngine

\* ---- actions: API calls --------------------------------------------------
StartGame ==
  /\ ~ crashed /\ phase = "lobby"
  /\ \E x \in startGame(Cur) : Install(x, "startGame")

CommitBy(a, m) ==
  /\ ~ crashed
  /\ \E x \in commitMove(Cur, a, m) : Install(x, "commitMove")

\* POST /api/games/:gameId/agents/:agentId/move with a participant's id
CommitMove == \E a \in AgentIds, m \in Moves : CommitBy(a, m)

\* the same route with an id that is no participant's
StrangerCommits == \E m \in AttackMoves : CommitBy(Stranger, m)

AdvancePhase ==
  /\ ~ crashed
  /\ \E x \in advancePhase(Cur) : Install(x, "advancePhase")

Pause ==
  /\ ~ crashed
  /\ Install(pause(Cur), "pause")

Resume ==
  /\ ~ crashed
  /\ \E x \in resume(Cur) : Install(x, "resume")

Stop ==
  /\ ~ crashed
  /\ \E x \in stop(Cur) : Install(x, "stop")

\* ---- actions: timer callbacks -------------------------------------------
\* With the default durations a timer that was overwritten in the timers Map
\* (an 8 s resolve timer) and the 5 s warning are due before the phase timer.
PhaseTimerFires ==
  /\ ~ crashed /\ timers["phase"].live /\ leaked = << >> /\ ~ timers["warning"].live
  /\ LET s == [Cur EXCEPT !.timers["phase"].live = FALSE]
     IN \E x \in (IF timers["phase"].cb = "endTurn" THEN PhaseManager_endTurn(s)
                  ELSE advancePhase(s)) :
          Install(x, "phaseTimer")

WarningTimerFires ==
  /\ ~ crashed /\ timers["warning"].live
  /\ Install([Cur EXCEPT !.timers["warning"].live = FALSE], "warningTimer")

LeakedTimerFires ==
  /\ ~ crashed /\ leaked # << >>
  /\ LET s == [Cur EXCEPT !.leaked = Tail(@)]
     IN \E x \in (IF Head(leaked).cb = "endTurn" THEN PhaseManager_endTurn(s)
                  ELSE advancePhase(s)) :
          Install(x, "leakedTimer")

Next ==
  \/ StartGame
  \/ CommitMove
  \/ AdvancePhase
  \/ Pause
  \/ Resume
  \/ Stop
  \/ PhaseTimerFires
  \/ WarningTimerFires
  \/ LeakedTimerFires

\* matches whose moves come from the participants
Spec == Init /\ [][Next]_vars

\* matches in which the move route is also called with a foreign agent id
NextOpen == Next \/ StrangerCommits

SpecOpen == Init /\ [][NextOpen]_vars

\* ---- properties ----------------------------------------------------------
Before(step, i) == \E j \in 1..(i - 1) : tlog[j] = step

\* C1: within a turn every win check comes after a reinforcement distribution,
\* every reinforcement distribution after a battle resolution and every battle
\* resolution after a reveal.
C1_StepsOrdered ==
  \A i \in 1..Len(tlog) :
    /\ tlog[i] = "wincheck" => Before("reinforce", i)
    /\ tlog[i] = "reinforce" => Before("resolve", i)
    /\ tlog[i] = "resolve" => Before("reveal", i)

Shows(a, b) ==
  \E i \in 1..Len(getAgentState(Cur, a).revealedMoves) :
     getAgentState(Cur, a).revealedMoves[i].agentId = b

\* C2: the private snapshot of a shows the move of another participant b only
\* in resolve and only when b's commitment is revealed; the public snapshot has
\* no move field at all.
C2_SnapshotsHideMoves ==
  /\ \A a, b \in DOMAIN agents :
       (a # b /\ Shows(a, b)) => (phase = "resolve" /\ MapHas(revealedMoves, b))
  /\ DOMAIN getPublicState(Cur) \cap {"moves", "revealedMoves", "myCommitment"} = {}
  /\ \A a \in DOMAIN agents :
       DOMAIN getPublicState(Cur).agents[a] \cap {"moves", "revealedMoves", "move"} = {}

\* a revealed move of another participant is held back outside resolve
C2_Witness ==
  /\ phase = "ended"
  /\ \E a, b \in DOMAIN agents : a # b /\ MapHas(revealedMoves, b) /\ ~ Shows(a, b)

\* C3: every territory's owner is null or an existing participant, and a
\* territory is listed exactly once by its owner and by nobody else.
C3_Partition ==
  (phase # "lobby" /\ ~ crashed) =>
    \A t \in Territories :
      /\ territories[t].owner = Null \/ territories[t].owner \in DOMAIN agents
      /\ \A a \in DOMAIN agents :
           Count(agents[a].territories, t) = (IF territories[t].owner = a THEN 1 ELSE 0)

ProgramVars == << phase, turn, maxTurns, winner, agents, territories, moves, revealedMoves,
                  timers, leaked, isRunning >>

\* C4: commitMove outside the commit phase throws and changes nothing, and
\* raises no all-committed signal.
C4_CommitOutsideCommit ==
  [][(phase # "commit" /\ lastOp' = "commitMove") =>
        (threw' /\ signals' = 0 /\ UNCHANGED ProgramVars)]_vars

C4_Witness == lastOp = "commitMove" /\ threw /\ phase = "negotiation"

\* C5: the commitMove that brings the number of stored commitments to the
\* number of active participants takes the match from commit to resolve in
\* the same step.
C5_EarlyExit ==
  [][( /\ phase = "commit" /\ lastOp' = "commitMove" /\ ~ threw'
       /\ Len(moves') = Len(getActiveAgents(Cur)) ) =>
        (phase' = "resolve" /\ signals' >= 1)]_vars

\* the early exit happened while the commit timer was still pending
C5_Witness ==
  /\ lastOp = "commitMove" /\ ~ threw /\ phase = "resolve" /\ signals = 1
  /\ Len(moves) = Len(getActiveAgents(Cur))

\* what default-move synthesis makes of the commitment set before
SynthOK(before, after) ==
  /\ MapKeys(after) = MapKeys(before) \cup DOMAIN agents
  /\ \A a \in MapKeys(before) : MapGet(after, a) = MapGet(before, a)
  /\ \A a \in DOMAIN agents \ MapKeys(before) : MapGet(after, a).type = "defend"

\* C6: when the match leaves commit for resolve, exactly the active
\* participants without a commitment got a 'defend' commitment, the stored
\* commitments are unchanged, and every active participant is revealed.
C6_DefaultMoves ==
  [][(phase' = "resolve" /\ (phase # "resolve" \/ lastOp' = "resume")) =>
       /\ \A a \in DOMAIN agents' : MapHas(revealedMoves', a)
       /\ (phase = "commit" /\ lastOp' \in {"phaseTimer", "advancePhase"}) =>
             SynthOK(moves, moves')
       /\ (phase = "commit" /\ lastOp' = "commitMove") =>
             \E a \in MapKeys(moves') :
                SynthOK(MapSet(moves, a, MapGet(moves', a)), moves')]_vars

\* the commit timer expired with a stored attack and a missing commitment
C6_Witness ==
  /\ lastOp = "phaseTimer" /\ phase = "resolve"
  /\ \E a, b \in DOMAIN agents :
       /\ MapHas(revealedMoves, a) /\ MapGet(revealedMoves, a).type = "attack"
       /\ MapHas(revealedMoves, b) /\ MapGet(revealedMoves, b).type = "defend"

\* C7: no phase transition is started while another one is still running.
C7_NoOverlap == ~ overlap

Edges == { << "lobby", "negotiation" >>, << "negotiation", "commit" >>,
           << "commit", "resolve" >>, << "resolve", "negotiation" >>,
           << "resolve", "ended" >> }

\* C8: once the phase is ended, no event changes the phase or the turn.
C8_EndedTerminal ==
  [][phase = "ended" => (phase' = "ended" /\ turn' = turn)]_vars

\* C9: every change of the phase value follows an edge of the phase cycle or
\* is made by stop().
C9_PhaseEdges ==
  \A e \in edges : e \in Edges \/ (lastOp = "stop" /\ e[2] = "ended")

\* C10: while the match is paused neither a timer nor a commitMove changes the
\* phase or the turn, and a second pause() changes nothing.
C10_PauseHolds ==
  [][(paused /\ lastOp' \in TimerOps \cup {"commitMove", "pause"}) =>
        (phase' = phase /\ turn' = turn /\ (lastOp' = "pause" => UNCHANGED ProgramVars))]_vars

\* C11: after stop() the phase is ended and no timer of the match is pending,
\* neither in the timers Map nor outside it.
C11_StopCancelsTimers ==
  (lastOp = "stop") =>
     /\ phase = "ended"
     /\ ~ timers["phase"].live /\ ~ timers["warning"].live
     /\ leaked = << >>

RunningPhases == {"negotiation", "commit", "resolve"}

\* C12: resume() in a running phase leaves phase and turn unchanged and arms
\* the phase timer again; in resolve it runs reveal, battle resolution and
\* reinforcement distribution once more for the same turn.
C12_ResumeReenters ==
  [][(lastOp' = "resume" /\ phase \in RunningPhases) =>
        /\ phase' = phase /\ turn' = turn
        /\ timers'["phase"].live
        /\ (phase = "resolve") =>
              tlog' = tlog \o << "reveal", "resolve", "reinforce" >>]_vars

\* ---- matches in which startGame is called again --------------------------
\* POST /api/games/:gameId/start on a match that has left lobby
StartAgain ==
  /\ ~ crashed /\ phase # "lobby"
  /\ \E x \in startGame(Cur) : Install(x, "startGame")

NextRestart == Next \/ StartAgain

SpecRestart == Init /\ [][NextRestart]_vars

\* C13: a startGame call on a match that has left lobby has no effect: it
\* re-assigns no territory, adds no starting armies and changes no phase.
C13_DistributionOnce ==
  [][(phase # "lobby" /\ lastOp' = "startGame") =>
        (territories' = territories /\ agents' = agents /\ phase' = phase)]_vars

\* ---- matches left to their timers and their built-in agents: started, never
\* ---- paused or stopped, run to their end (no horizon: the turn limit ends
\* ---- every such match)
\* ops keeps the parity of the handler invocations
Flip == ops' = (ops + 1) % 2

Run(s, op) == Flip /\ UNCHANGED << rolls, ret, reputation >> /\ Effects(s, op)

LiveStart ==
  /\ phase = "lobby"
  /\ \E x \in startGame(Cur) : Run(x, "startGame")

PhaseTimerDue ==
  ~ crashed /\ timers["phase"].live /\ leaked = << >> /\ ~ timers["warning"].live

WarningTimerDue == ~ crashed /\ timers["warning"].live

LeakedTimerDue == ~ crashed /\ leaked # << >>

LivePhaseTimer ==
  /\ PhaseTimerDue
  /\ LET s == [Cur EXCEPT !.timers["phase"].live = FALSE]
     IN \E x \in (IF timers["phase"].cb = "endTurn" THEN PhaseManager_endTurn(s)
                  ELSE advancePhase(s)) :
          Run(x, "phaseTimer")

LiveWarningTimer ==
  /\ WarningTimerDue
  /\ Run([Cur EXCEPT !.timers["warning"].live = FALSE], "warningTimer")

LiveLeakedTimer ==
  /\ LeakedTimerDue
  /\ LET s == [Cur EXCEPT !.leaked = Tail(@)]
     IN \E x \in (IF Head(leaked).cb = "endTurn" THEN PhaseManager_endTurn(s)
                  ELSE advancePhase(s)) :
          Run(x, "leakedTimer")

NextLive ==
  \/ LiveStart
  \/ LivePhaseTimer
  \/ LiveWarningTimer
  \/ LiveLeakedTimer

\* every armed timer eventually fires: a timer that stays due has its
\* callback run (the step of NextLive that leaves lastOp naming that timer)
SpecLive ==
  /\ Init /\ [][NextLive]_vars
  /\ WF_ops(PhaseTimerDue /\ lastOp' = "phaseTimer" /\ Flip)
  /\ WF_ops(WarningTimerDue /\ lastOp' = "warningTimer" /\ Flip)
  /\ WF_ops(LeakedTimerDue /\ lastOp' = "leakedTimer" /\ Flip)

BattleTargets == {1, 2}

AttackArmies == {Undef, 2, 5}

DefenderArmies == {1, 3, 90}

BattleMoves ==
  { Mv("attack", ((to % NumTerr) + 1), to, ar) : to \in BattleTargets, ar \in AttackArmies }
  \cup { Mv("defend", Null, Null, 3) }

Samples == 0..(Grain - 1)

\* the owner the identity shuffle gives territory t
InitialOwner(t) == ((t - 1) % NumAgents) + 1

CommitOrders == { q \in [1..NumAgents -> AgentIds] : \A i, j \in 1..NumAgents : q[i] = q[j] => i = j }

\* a match in resolve after revealMoves: every participant has a revealed
\* commitment, stored in the order of the first commits
InitBattle ==
  /\ phase = "resolve" /\ turn = 1 /\ maxTurns = MaxTurns /\ winner = Null
  /\ \E d \in [BattleTargets -> DefenderArmies] :
       /\ territories = [t \in Territories |->
             [owner |-> InitialOwner(t), armies |-> IF t \in BattleTargets THEN d[t] ELSE 3]]
       /\ agents = [a \in AgentIds |->
             [territories |-> SortedSeq({ t \in Territories : InitialOwner(t) = a }),
              armies |-> SeqSum([i \in 1..NumTerr |->
                            IF InitialOwner(i) # a THEN 0
                            ELSE IF i \in BattleTargets THEN d[i] ELSE 3]),
              resources |-> 10, eliminated |-> FALSE]]
  /\ \E q \in CommitOrders, mv \in [AgentIds -> BattleMoves] :
       moves = [i \in 1..NumAgents |-> [agentId |-> q[i], move |-> mv[q[i]]]]
  /\ revealedMoves = moves
  /\ timers = [phase |-> NoTimer, warning |-> NoTimer] /\ leaked = << >>
  /\ isRunning = TRUE /\ crashed = FALSE /\ lastOp = "revealMoves" /\ threw = FALSE
  /\ paused = FALSE /\ tlog = << "reveal" >> /\ overlap = FALSE /\ signals = 0 /\ uncommitted = {} /\ edges = {}
  /\ ops = 0 /\ rolls = << >> /\ ret = << >> /\ reputation = NewEngine

\* the loop of resolveBattles with the two Math.random() samples of territory
\* tid given as q[tid]
RECURSIVE battleRun(_, _, _)
battleRun(s, order, q) ==
  IF order = << >> \/ s.err THEN s
  ELSE battleRun(applyBattle(s, Head(order),
                             resolveBattle(s, Head(order), q[Head(order)][1], q[Head(order)][2])),
                 Tail(order), q)

resolveBattlesWith(s, q) ==
  battleRun(Log(s, "resolve"), battleOrder(s.revealedMoves, {}), q)

ResolveBattlesCall ==
  /\ lastOp = "revealMoves"
  /\ \E q \in [BattleTargets -> Samples \X Samples] :
       /\ Effects(resolveBattlesWith(Cur, q), "resolveBattles")
       /\ rolls' = q /\ ops' = ops + 1 /\ UNCHANGED << ret, reputation >>

NextBattle == ResolveBattlesCall

SpecBattle == InitBattle /\ [][NextBattle]_vars

Contested(rev) == { t \in Territories :
                      \E i \in 1..Len(rev) : rev[i].move.type = "attack" /\ rev[i].move.to = t }

Committed(m) == IF m.armies = Undef THEN 1 ELSE m.armies

AttackersOn(rev, t) ==
  { i \in 1..Len(rev) : rev[i].move.type = "attack" /\ rev[i].move.to = t }

TotalAttack(rev, t) ==
  SeqSum([i \in 1..Len(rev) |-> IF i \in AttackersOn(rev, t) THEN Committed(rev[i].move) ELSE 0])

\* attackRoll > defenseRoll for the samples q of territory t
AttackSampleWins(rev, terr, t, q) ==
  2 * q[t][1] * TotalAttack(rev, t) > 3 * q[t][2] * terr[t].armies

TopAttackers(rev, t) ==
  { rev[i].agentId : i \in { j \in AttackersOn(rev, t) :
        \A k \in AttackersOn(rev, t) : Committed(rev[k].move) <= Committed(rev[j].move) } }

\* C15: after resolveBattles every contested territory whose attack sample
\* exceeded its defence sample is owned by an attacker with the largest
\* committed armies, and every other contested territory has kept its owner.
C15_BattleOwner ==
  [][(lastOp' = "resolveBattles") =>
       \A t \in Contested(revealedMoves) :
          IF AttackSampleWins(revealedMoves, territories, t, rolls')
          THEN territories'[t].owner \in TopAttackers(revealedMoves, t)
          ELSE territories'[t].owner = territories[t].owner]_vars

\* two attackers with different armies took a territory from its owner
C15_Witness ==
  /\ lastOp = "resolveBattles"
  /\ \E t \in BattleTargets :
       /\ territories[t].owner # InitialOwner(t)
       /\ Cardinality(AttackersOn(revealedMoves, t)) >= 2
       /\ Cardinality(TopAttackers(revealedMoves, t)) = 1

\* C16: after a battle the territory holds max(1, floor(6A/10)) armies if the
\* attack sample won (A the total committed attack) and max(1, floor(7D/10))
\* if the defence held (D its armies before), so at least 1.
C16_RemainingArmies ==
  [][(lastOp' = "resolveBattles") =>
       \A t \in Contested(revealedMoves) :
          /\ territories'[t].armies >= 1
          /\ territories'[t].armies =
               IF AttackSampleWins(revealedMoves, territories, t, rolls')
               THEN Max2(1, (6 * TotalAttack(revealedMoves, t)) \div 10)
               ELSE Max2(1, (7 * territories[t].armies) \div 10)]_vars

\* every order in which the territories of S can be processed
OrdersOf(S) ==
  { o \in [1..Cardinality(S) -> S] : \A i, j \in 1..Cardinality(S) : o[i] = o[j] => i = j }

\* C17: within one resolveBattles call each contested territory ends as its
\* own battle alone would leave it, and the final territories are the same
\* for every order in which the contested territories are processed.
C17_OrderIndependent ==
  [][(lastOp' = "resolveBattles") =>
       /\ \A o \in OrdersOf(Contested(revealedMoves)) :
             battleRun(Log(Cur, "resolve"), o, rolls').territories = territories'
       /\ \A t \in Contested(revealedMoves) :
             battleRun(Log(Cur, "resolve"), << t >>, rolls').territories[t] = territories'[t]]_vars

\* two territories were contested in one call and both changed hands
C17_Witness ==
  /\ lastOp = "resolveBattles"
  /\ Cardinality(Contested(revealedMoves)) = 2
  /\ \A t \in Contested(revealedMoves) :
        /\ territories[t].owner # InitialOwner(t)
        /\ 2 * rolls[t][1] > 0

\* the revealed commitments rev as they are stored when submitted in order p
Resubmitted(rev, p) == [i \in 1..Len(rev) |-> rev[p[i]]]

\* C18: where the attackers win a territory on which two or more of them
\* committed the same maximal armies, the new owner is the same for every
\* order in which the same commitments could have been submitted.
C18_TieBreakByRule ==
  [][(lastOp' = "resolveBattles") =>
       \A t \in Contested(revealedMoves) :
          (/\ AttackSampleWins(revealedMoves, territories, t, rolls')
           /\ Cardinality(TopAttackers(revealedMoves, t)) >= 2) =>
             \A p \in CommitOrders :
                resolveBattlesWith([Cur EXCEPT !.revealedMoves = Resubmitted(revealedMoves, p)],
                                   rolls').territories[t].owner = territories'[t].owner]_vars

\* ---- calculateReinforcements on drawn states --------------------------------
\* territories beyond the modelled continents, of continents the participant
\* never owns all of; the participant under test owns the first k of them
MaxExtra == 9

ExtraCounts == {0, 7, MaxExtra}

ResourcePools == {0, 4, 10, 12}

MaxCalls == 2

ReinfTerritories == 1..(NumTerr + MaxExtra)

\* a started match: every territory has an owner, each participant's list
\* holds exactly the territories it owns
InitReinf ==
  /\ phase = "resolve" /\ turn = 1 /\ maxTurns = MaxTurns /\ winner = Null
  /\ \E own \in [Territories -> AgentIds], a \in AgentIds, k \in ExtraCounts,
        r \in ResourcePools, e \in BOOLEAN :
       LET ownerOf(t) == IF t <= NumTerr THEN own[t]
                         ELSE IF t <= NumTerr + k THEN a ELSE (a % NumAgents) + 1
       IN /\ territories = [t \in ReinfTerritories |-> [owner |-> ownerOf(t), armies |-> 3]]
          /\ agents = [b \in AgentIds |->
                [territories |-> SortedSeq({ t \in ReinfTerritories : ownerOf(t) = b }),
                 armies |-> 3 * Cardinality({ t \in ReinfTerritories : ownerOf(t) = b }),
                 resources |-> IF b = a THEN r ELSE 10,
                 eliminated |-> (b = a /\ e)]]
  /\ moves = << >> /\ revealedMoves = << >>
  /\ timers = [phase |-> NoTimer, warning |-> NoTimer] /\ leaked = << >>
  /\ isRunning = TRUE /\ crashed = FALSE /\ lastOp = "startGame" /\ threw = FALSE
  /\ paused = FALSE /\ tlog = << >> /\ overlap = FALSE /\ signals = 0 /\ uncommitted = {} /\ edges = {}
  /\ ops = 0 /\ rolls = << >> /\ ret = << >> /\ reputation = NewEngine

ReinforcementsCall ==
  /\ ops < MaxCalls
  /\ \E agentId \in AgentIds \cup {Stranger} :
       LET r == calculateReinforcements(Cur, agentId)
       IN /\ Effects(r.st, "calculateReinforcements")
          /\ ret' = [agentId |-> agentId, val |-> r.val]
          /\ ops' = ops + 1 /\ UNCHANGED << rolls, reputation >>

NextReinf == ReinforcementsCall

SpecReinf == InitReinf /\ [][NextReinf]_vars

Owned(terr, a) == { t \in DOMAIN terr : terr[t].owner = a }

ContinentBonus(terr, a) ==
  SeqSum([c \in 1..Len(Continents) |->
            IF Continents[c].territories \subseteq Owned(terr, a) THEN Continents[c].bonus ELSE 0])

\* C19: for a participant that is known and not eliminated, owning n
\* territories with r resources, calculateReinforcements returns
\* max(3, floor(n/3)) + the bonuses of the continents it owns entirely +
\* floor(r/5) and leaves it r mod 5 resources (n = 9, r = 12 and no continent:
\* 5, leaving 2); for any other id it returns 0 and changes nothing.
C19_Reinforcements ==
  [][(lastOp' = "calculateReinforcements") =>
       LET a == ret'.agentId
       IN IF a \notin DOMAIN agents \/ agents[a].eliminated
          THEN ret'.val = 0 /\ agents' = agents /\ territories' = territories
          ELSE LET n == Cardinality(Owned(territories, a))
                   r == agents[a].resources
               IN /\ ret'.val = Max2(3, n \div 3) + ContinentBonus(territories, a) + (r \div 5)
                  /\ agents' = [agents EXCEPT ![a].resources = r % 5]
                  /\ territories' = territories
                  /\ (n = 9 /\ r = 12 /\ ContinentBonus(territories, a) = 0) =>
                        (ret'.val = 5 /\ agents'[a].resources = 2)]_vars

\* a participant owning twelve territories, one whole continent among them,
\* converted twelve resources
C19_Witness ==
  /\ lastOp = "calculateReinforcements"
  /\ ret.agentId \in AgentIds
  /\ Cardinality(Owned(territories, ret.agentId)) >= 12
  /\ ContinentBonus(territories, ret.agentId) > 0
  /\ ret.val = 4 + ContinentBonus(territories, ret.agentId) + 2
  /\ agents[ret.agentId].resources = 2

\* ---- checkWinCondition on drawn states --------------------------------------
\* a running match at the end of a turn: every territory has an owner, the
\* lists hold what is owned, at least one participant is not eliminated
WinAgents == 1..(NumAgents + 1)

InitWin ==
  /\ phase = "resolve" /\ maxTurns = MaxTurns /\ winner = Null
  /\ turn \in 1..MaxTurns
  /\ \E own \in [Territories -> WinAgents], el \in [WinAgents -> BOOLEAN] :
       /\ \E a \in WinAgents : ~ el[a]
       /\ territories = [t \in Territories |-> [owner |-> own[t], armies |-> 3]]
       /\ agents = [a \in WinAgents |->
             [territories |-> SortedSeq({ t \in Territories : own[t] = a }),
              armies |-> 3 * Cardinality({ t \in Territories : own[t] = a }),
              resources |-> 0, eliminated |-> el[a]]]
  /\ moves = << >> /\ revealedMoves = << >>
  /\ timers = [phase |-> NoTimer, warning |-> NoTimer] /\ leaked = << >>
  /\ isRunning = TRUE /\ crashed = FALSE /\ lastOp = "applyReinforcements" /\ threw = FALSE
  /\ paused = FALSE /\ tlog = << >> /\ overlap = FALSE /\ signals = 0 /\ uncommitted = {} /\ edges = {}
  /\ ops = 0 /\ rolls = << >> /\ ret = << >> /\ reputation = NewEngine

WinCheckCall ==
  /\ ops < MaxCalls
  /\ \E x \in checkWinCondition(Cur) :
       /\ Effects(x, "checkWinCondition")
       /\ ret' = winResult(Cur)
       /\ ops' = ops + 1 /\ UNCHANGED << rolls, reputation >>

NextWin == WinCheckCall

SpecWin == InitWin /\ [][NextWin]_vars

ActiveSet(ag) == { a \in DOMAIN ag : ~ ag[a].eliminated }

Dominating(ag, terr) ==
  { a \in ActiveSet(ag) : 5 * Cardinality(Owned(terr, a)) >= 3 * Cardinality(DOMAIN terr) }

\* C20: checkWinCondition returns an elimination win for the only
\* non-eliminated participant if there is exactly one; else a domination win
\* for an active participant holding at least 60% of the territories; else,
\* from turn maxTurns on, a turns win; else nothing, leaving phase and winner
\* as they were. A returned win sets winner and ends the phase.
C20_WinPriority ==
  [][(lastOp' = "checkWinCondition") =>
       /\ ~ threw'
       /\ IF Cardinality(ActiveSet(agents)) = 1
          THEN ret'.type = "elimination" /\ ret'.winner \in ActiveSet(agents)
          ELSE IF Dominating(agents, territories) # {}
          THEN ret'.type = "domination" /\ ret'.winner \in Dominating(agents, territories)
          ELSE IF turn >= maxTurns
          THEN ret'.type = "turns" /\ ret'.winner \in ActiveSet(agents)
          ELSE ret'.type = "none" /\ phase' = phase /\ winner' = winner
       /\ (ret'.type # "none") => (winner' = ret'.winner /\ phase' = "ended")]_vars

\* the only survivor won by elimination while an eliminated participant held
\* at least 60% of the territories
C20_Witness ==
  /\ lastOp = "checkWinCondition"
  /\ ret.type = "elimination" /\ winner = ret.winner /\ phase = "ended"
  /\ \E b \in AgentIds :
       /\ agents[b].eliminated
       /\ 5 * Cardinality(Owned(territories, b)) >= 3 * NumTerr

\* C21: a win check at turn maxTurns or later to which neither elimination
\* nor domination applies declares an active participant that owns at least
\* as many territories as every other active participant.
C21_TurnsWinnerHoldsMost ==
  [][(/\ lastOp' = "checkWinCondition"
      /\ turn >= maxTurns
      /\ Cardinality(ActiveSet(agents)) # 1
      /\ Dominating(agents, territories) = {}) =>
       /\ winner' \in ActiveSet(agents)
       /\ \A b \in ActiveSet(agents) :
             Cardinality(Owned(territories, b)) <= Cardinality(Owned(territories, winner'))]_vars

\* a turns win went to a participant that is not the first active one and
\* owns more than another active participant
C21_Witness ==
  /\ lastOp = "checkWinCondition" /\ ret.type = "turns" /\ winner = ret.winner
  /\ \E b \in ActiveSet(agents) :
       /\ b < winner
       /\ Cardinality(Owned(territories, b)) < Cardinality(Owned(territories, winner))

\* ---- ReputationEngine operations --------------------------------------------
\* Math.round of the rational num/den (num >= 0, den > 0): halves go up
MathRound(num, den) == (2 * num + den) \div (2 * den)

\* Math.round(trustScore * 0.3 + (dealsKept / totalCompleted) * 100 * 0.7);
\* up to 6 completed deals the double evaluation and the exact value round
\* alike for every trustScore in 0..100
blendTrust(trustScore, dealsKept, totalCompleted) ==
  MathRound(3 * trustScore * totalCompleted + 700 * dealsKept, 10 * totalCompleted)

updateDealCounts(e, agentId, type) ==
  IF agentId \notin DOMAIN e.agentReputations THEN e
  ELSE LET rep == e.agentReputations[agentId]
           counted == [rep EXCEPT !.dealsMade = IF type = "made" THEN @ + 1 ELSE @,
                                  !.dealsKept = IF type = "kept" THEN @ + 1 ELSE @,
                                  !.dealsBroken = IF type = "broken" THEN @ + 1 ELSE @]
           totalCompleted == counted.dealsKept + counted.dealsBroken
       IN [e EXCEPT !.agentReputations[agentId] =
             IF totalCompleted > 0
             THEN [counted EXCEPT !.trustScore =
                      blendTrust(counted.trustScore, counted.dealsKept, totalCompleted)]
             ELSE counted]

updateAllianceCounts(e, agentId, type) ==
  IF agentId \notin DOMAIN e.agentReputations THEN e
  ELSE [e EXCEPT !.agentReputations[agentId].alliancesHonored = IF type = "honored" THEN @ + 1 ELSE @,
                 !.agentReputations[agentId].alliancesBroken = IF type = "broken" THEN @ + 1 ELSE @]

recordBetrayal(e, betrayerId, victimId, type) ==
  LET e1 == IF betrayerId \in DOMAIN e.agentReputations
            THEN [e EXCEPT !.agentReputations[betrayerId].betrayals =
                              Append(@, [victim |-> victimId, type |-> type]),
                           !.agentReputations[betrayerId].trustScore = Max2(0, @ - 10)]
            ELSE e
  IN IF victimId \in DOMAIN e1.agentReputations
     THEN [e1 EXCEPT !.agentReputations[victimId].betrayedBy =
                        Append(@, [betrayer |-> betrayerId, type |-> type])]
     ELSE e1

\* recordDeal with a generated id: the next unused one
recordDeal(e, proposer, acceptor) ==
  LET id == Cardinality(DOMAIN e.deals) + 1
      dealData == [proposer |-> proposer, acceptor |-> acceptor, status |-> "pending",
                   fulfilled |-> {}, brokenBy |-> Null]
      e1 == [e EXCEPT !.deals = (id :> dealData) @@ @]
  IN [e |-> updateDealCounts(updateDealCounts(e1, proposer, "made"), acceptor, "made"),
      val |-> "deal"]

acceptDeal(e, dealId, acceptorId) ==
  IF dealId \notin DOMAIN e.deals THEN [e |-> e, val |-> "throw"]
  ELSE IF e.deals[dealId].acceptor # acceptorId THEN [e |-> e, val |-> "throw"]
  ELSE [e |-> [e EXCEPT !.deals[dealId].status = "active"], val |-> "deal"]

\* deal.fulfilled as the set of keys whose value is true
fulfillDeal(e, dealId, agentId) ==
  IF dealId \notin DOMAIN e.deals THEN [e |-> e, val |-> "false"]
  ELSE IF e.deals[dealId].status # "active" THEN [e |-> e, val |-> "false"]
  ELSE LET deal == e.deals[dealId]
           fulfilled == deal.fulfilled \cup {agentId}
           allFulfilled == {deal.proposer, deal.acceptor} \subseteq fulfilled
           e1 == [e EXCEPT !.deals[dealId].fulfilled = fulfilled]
       IN IF allFulfilled
          THEN [e |-> updateDealCounts(
                        updateDealCounts([e1 EXCEPT !.deals[dealId].status = "completed"],
                                         deal.proposer, "kept"),
                        deal.acceptor, "kept"),
                val |-> "true"]
          ELSE [e |-> e1, val |-> "true"]

breakDeal_noCredit(e, dealId, agentId) ==
  IF dealId \notin DOMAIN e.deals THEN [e |-> e, val |-> "false"]
  ELSE IF e.deals[dealId].status \notin {"active", "pending"} THEN [e |-> e, val |-> "false"]
  ELSE LET deal == e.deals[dealId]
           otherParty == IF deal.proposer = agentId THEN deal.acceptor ELSE deal.proposer
           e1 == [e EXCEPT !.deals[dealId].status = "broken", !.deals[dealId].brokenBy = agentId]
           e2 == recordBetrayal(e1, agentId, otherParty, "deal")
       IN [e |-> updateDealCounts(e2, agentId, "broken"), val |-> "deal"]

breakDeal(e, dealId, agentId) ==
  IF dealId \notin DOMAIN e.deals THEN [e |-> e, val |-> "false"]
  ELSE IF e.deals[dealId].status \notin {"active", "pending"} THEN [e |-> e, val |-> "false"]
  ELSE LET deal == e.deals[dealId]
           otherParty == IF deal.proposer = agentId THEN deal.acceptor ELSE deal.proposer
           e1 == [e EXCEPT !.deals[dealId].status = "broken", !.deals[dealId].brokenBy = agentId]
           e2 == recordBetrayal(e1, agentId, otherParty, "deal")
           e3 == updateDealCounts(e2, agentId, "broken")
       IN [e |-> updateDealCounts(e3, otherParty, "kept"), val |-> "deal"]

\* formAlliance with a generated id; formed is a ghost: the members given
formAlliance(e, members) ==
  LET id == Cardinality(DOMAIN e.alliances) + 1
      allianceData == [members |-> members, status |-> "active", brokenBy |-> Null,
                       formed |-> members]
  IN [e |-> [e EXCEPT !.alliances = (id :> allianceData) @@ @], val |-> "alliance"]

\* alliance.members.forEach: in insertion order, here ascending ids
RECURSIVE betrayEach(_, _, _)
betrayEach(e, agentId, members) ==
  IF members = << >> THEN e
  ELSE IF Head(members) = agentId THEN betrayEach(e, agentId, Tail(members))
  ELSE betrayEach(updateAllianceCounts(recordBetrayal(e, agentId, Head(members), "alliance"),
                                       Head(members), "honored"),
                  agentId, Tail(members))

breakAlliance_sparing(e, allianceId, agentId) ==
  IF allianceId \notin DOMAIN e.alliances THEN [e |-> e, val |-> "false"]
  ELSE IF agentId \notin e.alliances[allianceId].members THEN [e |-> e, val |-> "false"]
  ELSE [e |-> updateAllianceCounts(
                [e EXCEPT !.alliances[allianceId].status = "broken",
                          !.alliances[allianceId].brokenBy = agentId],
                agentId, "broken"),
        val |-> "alliance"]

breakAlliance(e, allianceId, agentId) ==
  IF allianceId \notin DOMAIN e.alliances THEN [e |-> e, val |-> "false"]
  ELSE IF agentId \notin e.alliances[allianceId].members THEN [e |-> e, val |-> "false"]
  ELSE LET e1 == [e EXCEPT !.alliances[allianceId].status = "broken",
                           !.alliances[allianceId].brokenBy = agentId]
           e2 == betrayEach(e1, agentId, SortedSeq(e.alliances[allianceId].members))
       IN [e |-> updateAllianceCounts(e2, agentId, "broken"), val |-> "alliance"]

leaveAlliance_stay(e, allianceId, agentId) ==
  IF allianceId \notin DOMAIN e.alliances THEN [e |-> e, val |-> "false"]
  ELSE [e |-> [e EXCEPT !.alliances[allianceId].members = @ \ {agentId}], val |-> "true"]

leaveAlliance(e, allianceId, agentId) ==
  IF allianceId \notin DOMAIN e.alliances THEN [e |-> e, val |-> "false"]
  ELSE LET members == e.alliances[allianceId].members \ {agentId}
       IN [e |-> [e EXCEPT !.alliances[allianceId].members = members,
                           !.alliances[allianceId].status =
                              IF Cardinality(members) < 2 THEN "dissolved" ELSE @],
           val |-> "true"]

isAlly(e, agentId1, agentId2) ==
  \E id \in DOMAIN e.alliances :
     /\ e.alliances[id].status = "active"
     /\ agentId1 \in e.alliances[id].members
     /\ agentId2 \in e.alliances[id].members

analyzeAction_unclamped(e, agentId, type, target) ==
  IF agentId \notin DOMAIN e.agentReputations THEN [e |-> e, val |-> "undefined"]
  ELSE [e |-> [e EXCEPT !.agentReputations[agentId].trustScore =
                  IF type = "break-deal" THEN @ - 15
                  ELSE IF type = "keep-deal" THEN @ + 5 ELSE @],
        val |-> "undefined"]

analyzeAction(e, agentId, type, target) ==
  IF agentId \notin DOMAIN e.agentReputations THEN [e |-> e, val |-> "undefined"]
  ELSE IF type = "attack"
  THEN LET e1 == IF isAlly(e, agentId, target)
                 THEN recordBetrayal(e, agentId, target, "attack-ally") ELSE e
       IN [e |-> [e1 EXCEPT !.agentReputations[agentId].aggressionScore = IF @ + 2 > 100 THEN 100 ELSE @ + 2],
           val |-> "undefined"]
  ELSE IF type = "break-deal"
  THEN [e |-> [e EXCEPT !.agentReputations[agentId].trustScore = Max2(0, @ - 15)],
        val |-> "undefined"]
  ELSE IF type = "keep-deal"
  THEN [e |-> [e EXCEPT !.agentReputations[agentId].trustScore = IF @ + 5 > 100 THEN 100 ELSE @ + 5,
                        !.agentReputations[agentId].consistencyScore = IF @ + 2 > 100 THEN 100 ELSE @ + 2],
        val |-> "undefined"]
  ELSE [e |-> e, val |-> "undefined"]

\* ---- the ReputationEngine under any sequence of calls -----------------------
MaxDeals == 2

MaxAlliances == 1

MaxRepCalls == 4

DealIds == 1..MaxDeals

AllianceIds == 1..MaxAlliances

\* callers and members: the participants and an id that was never initialised
RepCallers == AgentIds \cup {Stranger}

ActionTypes == {"attack", "break-deal", "keep-deal"}

GameVars == << phase, turn, maxTurns, winner, agents, territories, moves, revealedMoves,
               timers, leaked, isRunning, crashed, paused, tlog, overlap, signals, uncommitted, edges, rolls >>

\* one call on the engine: r is what the call returns and leaves
RepStep(r, op, id, agentId) ==
  /\ ops' = ops + 1
  /\ reputation' = r.e
  /\ ret' = [id |-> id, agentId |-> agentId, val |-> r.val]
  /\ lastOp' = op /\ threw' = (r.val = "throw")
  /\ UNCHANGED GameVars

RepCall(r, op, id, agentId) == ops < MaxRepCalls /\ RepStep(r, op, id, agentId)

RecordDeal ==
  \E proposer \in AgentIds : \E acceptor \in AgentIds \ {proposer} :
     /\ Cardinality(DOMAIN reputation.deals) < MaxDeals
     /\ RepCall(recordDeal(reputation, proposer, acceptor), "recordDeal",
                Cardinality(DOMAIN reputation.deals) + 1, proposer)

AcceptDeal ==
  \E d \in DealIds, a \in RepCallers : RepCall(acceptDeal(reputation, d, a), "acceptDeal", d, a)

FulfillDeal ==
  \E d \in DealIds, a \in RepCallers : RepCall(fulfillDeal(reputation, d, a), "fulfillDeal", d, a)

BreakDeal ==
  \E d \in DealIds, a \in RepCallers : RepCall(breakDeal(reputation, d, a), "breakDeal", d, a)

FormAlliance ==
  \E members \in (SUBSET RepCallers) \ {{}} :
     /\ Cardinality(DOMAIN reputation.alliances) < MaxAlliances
     /\ RepCall(formAlliance(reputation, members), "formAlliance",
                Cardinality(DOMAIN reputation.alliances) + 1, Null)

BreakAlliance ==
  \E i \in AllianceIds, a \in RepCallers :
     RepCall(breakAlliance(reputation, i, a), "breakAlliance", i, a)

LeaveAlliance ==
  \E i \in AllianceIds, a \in RepCallers :
     RepCall(leaveAlliance(reputation, i, a), "leaveAlliance", i, a)

AnalyzeAction ==
  \E a \in RepCallers, ty \in ActionTypes, target \in RepCallers :
     /\ ty # "attack" => target = Stranger
     /\ RepCall(analyzeAction(reputation, a, ty, target), ty, target, a)

NextRep ==
  \/ RecordDeal \/ AcceptDeal \/ FulfillDeal \/ BreakDeal
  \/ FormAlliance \/ BreakAlliance \/ LeaveAlliance \/ AnalyzeAction

SpecRep == Init /\ [][NextRep]_vars

TerminalDeal == {"completed", "broken"}

\* C22: once a deal is completed or broken, no acceptDeal, fulfillDeal or
\* breakDeal call by anyone changes its status again.
C22_DealTerminal ==
  [][\A d \in DOMAIN reputation.deals :
        (/\ reputation.deals[d].status \in TerminalDeal
         /\ lastOp' \in {"acceptDeal", "fulfillDeal", "breakDeal"}) =>
           reputation'.deals[d].status = reputation.deals[d].status]_vars

TerminalAlliance == {"broken", "dissolved"}

\* C23: once an alliance is broken or dissolved, no breakAlliance or
\* leaveAlliance call on it changes its status or records a betrayal.
C23_AllianceTerminal ==
  [][\A i \in DOMAIN reputation.alliances :
        (/\ reputation.alliances[i].status \in TerminalAlliance
         /\ lastOp' \in {"breakAlliance", "leaveAlliance"} /\ ret'.id = i) =>
           /\ reputation'.alliances[i].status = reputation.alliances[i].status
           /\ \A a \in AgentIds :
                 /\ reputation'.agentReputations[a].betrayals = reputation.agentReputations[a].betrayals
                 /\ reputation'.agentReputations[a].betrayedBy = reputation.agentReputations[a].betrayedBy]_vars

Parties(deal) == {deal.proposer, deal.acceptor}

\* C24: breakDeal by a party of a pending or active deal leaves the deal
\* broken, adds 1 to the breaker's dealsBroken and 1 to the other party's
\* dealsKept and records one betrayal, by the breaker against the other
\* party; on a deal that is neither pending nor active it returns false and
\* changes nothing.
C24_BreakDeal ==
  [][(lastOp' = "breakDeal") =>
       LET d == ret'.id
           a == ret'.agentId
           reps == reputation.agentReputations
           after == reputation'.agentReputations
       IN IF d \in DOMAIN reputation.deals /\ reputation.deals[d].status \in {"pending", "active"}
          THEN (a \in Parties(reputation.deals[d])) =>
                 LET o == CHOOSE x \in Parties(reputation.deals[d]) : x # a
                 IN /\ reputation'.deals[d].status = "broken"
                    /\ after[a].dealsBroken = reps[a].dealsBroken + 1
                    /\ after[a].dealsKept = reps[a].dealsKept
                    /\ after[o].dealsKept = reps[o].dealsKept + 1
                    /\ after[o].dealsBroken = reps[o].dealsBroken
                    /\ after[a].betrayals = Append(reps[a].betrayals, [victim |-> o, type |-> "deal"])
                    /\ after[o].betrayedBy = Append(reps[o].betrayedBy, [betrayer |-> a, type |-> "deal"])
                    /\ after[o].betrayals = reps[o].betrayals
                    /\ after[a].betrayedBy = reps[a].betrayedBy
                    /\ \A x \in AgentIds \ {a, o} :
                          /\ after[x].betrayals = reps[x].betrayals
                          /\ after[x].betrayedBy = reps[x].betrayedBy
          ELSE ret'.val = "false" /\ reputation' = reputation]_vars

\* the acceptor broke a deal it had accepted
C24_Witness ==
  /\ lastOp = "breakDeal" /\ ret.val = "deal"
  /\ reputation.deals[ret.id].brokenBy = reputation.deals[ret.id].acceptor
  /\ ret.agentId = reputation.deals[ret.id].acceptor
  /\ reputation.agentReputations[ret.agentId].dealsBroken = 1
  /\ Len(reputation.agentReputations[ret.agentId].betrayals) = 1
  /\ reputation.agentReputations[reputation.deals[ret.id].proposer].dealsKept = 1

\* ---- deals between the participants, followed further -----------------------
MaxTrustCalls == 7

TrustCall(r, op, id, agentId) == ops < MaxTrustCalls /\ RepStep(r, op, id, agentId)

TrustRecordDeal ==
  \E proposer \in AgentIds : \E acceptor \in AgentIds \ {proposer} :
     /\ Cardinality(DOMAIN reputation.deals) < MaxDeals
     /\ TrustCall(recordDeal(reputation, proposer, acceptor), "recordDeal",
                  Cardinality(DOMAIN reputation.deals) + 1, proposer)

TrustBreakDeal ==
  \E d \in DealIds, a \in AgentIds :
     /\ d \in DOMAIN reputation.deals
     /\ TrustCall(breakDeal(reputation, d, a), "breakDeal", d, a)

TrustAnalyzeAction ==
  \E a \in AgentIds, ty \in {"break-deal", "keep-deal"} :
     /\ reputation.agentReputations[a].dealsKept > 0
     /\ TrustCall(analyzeAction(reputation, a, ty, Stranger), ty, Stranger, a)

NextTrust == TrustRecordDeal \/ TrustBreakDeal \/ TrustAnalyzeAction

SpecTrust == Init /\ [][NextTrust]_vars

\* C25: a successful breakDeal never leaves the breaker's trustScore higher
\* than it was before the call.
C25_BreakLowersTrust ==
  [][(lastOp' = "breakDeal" /\ ret'.val = "deal" /\ ret'.agentId \in AgentIds) =>
       reputation'.agentReputations[ret'.agentId].trustScore
          <= reputation.agentReputations[ret'.agentId].trustScore]_vars

\* C26: every participant's trustScore is 50 before any call and stays
\* within 0..100 after every sequence of calls on the engine.
C26_TrustInRange ==
  \A a \in AgentIds :
     /\ reputation.agentReputations[a].trustScore \in 0..100
     /\ (ops = 0 => reputation.agentReputations[a].trustScore = 50)

\* a break-deal analysis took a participant with less than 15 trust to 0
C26_Witness ==
  /\ lastOp = "break-deal" /\ ret.agentId \in AgentIds
  /\ reputation.agentReputations[ret.agentId].trustScore = 0

\* the entries a call appended to a list, given the list before and after
Added(before, after) ==
  IF Len(after) >= Len(before) /\ SubSeq(after, 1, Len(before)) = before
  THEN SubSeq(after, Len(before) + 1, Len(after))
  ELSE << "rewritten" >>

\* C27: breakAlliance by a member of an active alliance leaves it broken and
\* records one betrayal by the breaker against each other member and no
\* other; by a non-member it returns false and changes nothing.
C27_BreakAlliance ==
  [][(lastOp' = "breakAlliance" /\ ret'.id \in DOMAIN reputation.alliances) =>
       LET i == ret'.id
           a == ret'.agentId
           others == reputation.alliances[i].members \ {a}
           reps == reputation.agentReputations
           after == reputation'.agentReputations
       IN IF a \notin reputation.alliances[i].members
          THEN ret'.val = "false" /\ reputation' = reputation
          ELSE (reputation.alliances[i].status = "active") =>
                 /\ reputation'.alliances[i].status = "broken"
                 /\ \A x \in AgentIds :
                       LET by == Added(reps[x].betrayals, after[x].betrayals)
                           on == Added(reps[x].betrayedBy, after[x].betrayedBy)
                       IN /\ IF x = a
                             THEN /\ Len(by) = Cardinality(others)
                                  /\ { by[k].victim : k \in 1..Len(by) } = others
                                  /\ \A k \in 1..Len(by) : by[k].type = "alliance"
                             ELSE by = << >>
                          /\ on = IF x \in others
                                  THEN << [betrayer |-> a, type |-> "alliance"] >>
                                  ELSE << >>]_vars

\* a participant broke an alliance of three and betrayed the two others
C27_Witness ==
  /\ lastOp = "breakAlliance" /\ ret.val = "alliance" /\ ret.agentId \in AgentIds
  /\ Cardinality(reputation.alliances[ret.id].members) = 3
  /\ reputation.alliances[ret.id].status = "broken"
  /\ Len(reputation.agentReputations[ret.agentId].betrayals) = 2

\* C28: leaveAlliance on an active alliance removes the leaving member,
\* dissolves the alliance exactly when fewer than 2 members remain and
\* leaves every reputation record as it was; so an active alliance that was
\* formed with at least 2 members always has at least 2 members.
C28_LeaveAlliance ==
  /\ [](\A i \in DOMAIN reputation.alliances :
           (/\ reputation.alliances[i].status = "active"
            /\ Cardinality(reputation.alliances[i].formed) >= 2) =>
              Cardinality(reputation.alliances[i].members) >= 2)
  /\ [][(/\ lastOp' = "leaveAlliance"
         /\ ret'.id \in DOMAIN reputation.alliances
         /\ reputation.alliances[ret'.id].status = "active") =>
          LET members == reputation.alliances[ret'.id].members \ {ret'.agentId}
          IN /\ ret'.val = "true"
             /\ reputation'.alliances[ret'.id].members = members
             /\ reputation'.alliances[ret'.id].status =
                   IF Cardinality(members) < 2 THEN "dissolved" ELSE "active"
             /\ reputation'.agentReputations = reputation.agentReputations]_vars

\* a member left an alliance of two, which dissolved
C28_Witness ==
  /\ lastOp = "leaveAlliance" /\ ret.val = "true"
  /\ Cardinality(reputation.alliances[ret.id].formed) = 2
  /\ reputation.alliances[ret.id].members = reputation.alliances[ret.id].formed \ {ret.agentId}
  /\ Cardinality(reputation.alliances[ret.id].members) = 1
  /\ reputation.alliances[ret.id].status = "dissolved"

\* C29: while the phase is lobby, negotiation or commit no move is revealed.
C29_RevealedOnlyInResolve ==
  (phase \in {"lobby", "negotiation", "commit"}) => revealedMoves = << >>

\* C30: the commitments hold at most one entry per participant; commitMove
\* by a participant that has already committed in this commit window is
\* accepted and replaces its entry; and every negotiation phase starts with
\* no commitment.
C30_OneCommitment ==
  /\ [](\A i, j \in 1..Len(moves) : moves[i].agentId = moves[j].agentId => i = j)
  /\ [](\A a \in AgentIds, m \in ValidMoves :
           (phase = "commit" /\ MapHas(moves, a)) =>
              \A x \in commitMove(Cur, a, m) :
                 /\ ~ x.err
                 /\ MapHas(x.moves, a) /\ MapGet(x.moves, a) = m
                 /\ Len(x.moves) = Len(moves))
  /\ [][(phase' = "negotiation" /\ phase # "negotiation") => moves' = << >>]_vars

\* ---- distributeTerritories on drawn lobbies ---------------------------------
\* a lobby of 1 to NumTerr + 1 participants, none owning anything
InitDist ==
  /\ phase = "lobby" /\ turn = 1 /\ maxTurns = MaxTurns /\ winner = Null
  /\ \E P \in 1..(NumTerr + 1) :
       agents = [a \in 1..P |->
                   [territories |-> << >>, armies |-> 0, resources |-> 0, eliminated |-> FALSE]]
  /\ territories = [t \in Territories |-> [owner |-> Null, armies |-> 0]]
  /\ moves = << >> /\ revealedMoves = << >>
  /\ timers = [phase |-> NoTimer, warning |-> NoTimer] /\ leaked = << >>
  /\ isRunning = FALSE /\ crashed = FALSE /\ lastOp = "createGame" /\ threw = FALSE
  /\ paused = FALSE /\ tlog = << >> /\ overlap = FALSE /\ signals = 0 /\ uncommitted = {} /\ edges = {}
  /\ ops = 0 /\ rolls = << >> /\ ret = << >> /\ reputation = NewEngine

\* one distributeTerritories call; ret keeps the outcome of the shuffle
DistributeCall ==
  /\ ops = 0
  /\ \E perm \in Perms :
       /\ Effects(distributeTerritories(Cur, perm), "distributeTerritories")
       /\ ret' = perm
       /\ ops' = ops + 1 /\ UNCHANGED << rolls, reputation >>

NextDist == DistributeCall

SpecDist == InitDist /\ [][NextDist]_vars

\* C31: one distributeTerritories call on at least as many territories as
\* participants leaves every territory with an owner among the participants
\* and 3 armies, and every participant with at least one territory, whatever
\* the shuffle.
C31_EveryoneOwns ==
  (lastOp = "distributeTerritories" /\ NumTerr >= Cardinality(DOMAIN agents)) =>
     /\ \A t \in Territories :
           territories[t].owner \in DOMAIN agents /\ territories[t].armies = 3
     /\ \A a \in DOMAIN agents :
           /\ Owned(territories, a) # {}
           /\ { agents[a].territories[i] : i \in 1..Len(agents[a].territories) } = Owned(territories, a)

\* as many participants as territories, shuffled: each owns one territory
\* and the first territory did not go to the first participant
C31_Witness ==
  /\ lastOp = "distributeTerritories"
  /\ Cardinality(DOMAIN agents) = NumTerr
  /\ \A a \in DOMAIN agents : Cardinality(Owned(territories, a)) = 1
  /\ territories[1].owner # 1

\* C32: an advancePhase call made in negotiation returns with the match in
\* commit, and one made in commit returns with the match in resolve and the
\* revealed moves holding one move per active participant.
C32_AdvanceOneStep ==
  [][(lastOp' = "advancePhase" /\ ~ threw') =>
       /\ (phase = "negotiation" => phase' = "commit")
       /\ (phase = "commit" =>
             /\ phase' = "resolve"
             /\ Len(revealedMoves') = Len(getActiveAgents([agents |-> agents']))
             /\ \A a \in DOMAIN agents' : ~ agents'[a].eliminated =>
                   \E i \in 1..Len(revealedMoves') : revealedMoves'[i].agentId = a)]_vars

\* C33: breakDeal called with an id that is neither the proposer nor the
\* acceptor of the deal leaves the deal's status and every participant's
\* reputation record (counters, betrayal lists, trustScore) unchanged.
C33_OnlyPartiesBreak ==
  [][(/\ lastOp' = "breakDeal"
      /\ ret'.id \in DOMAIN reputation.deals
      /\ ret'.agentId \notin Parties(reputation.deals[ret'.id])) =>
       /\ reputation'.deals[ret'.id].status = reputation.deals[ret'.id].status
       /\ reputation'.agentReputations = reputation.agentReputations]_vars

\* ---- matches in which resume() is never called -------------------------------
NextUnresumed ==
  \/ StartGame
  \/ CommitMove
  \/ AdvancePhase
  \/ Pause
  \/ Stop
  \/ PhaseTimerFires
  \/ WarningTimerFires
  \/ LeakedTimerFires

SpecUnresumed == Init /\ [][NextUnresumed]_vars

\* C34: while resume() is never called, battle resolution and reinforcement
\* distribution each run at most once within a turn number.
C34_OncePerTurn ==
  /\ Count(tlog, "resolve") <= 1
  /\ Count(tlog, "reinforce") <= 1

\* C35: whenever allMovesCommitted is raised, every active participant has a
\* stored commitment.
C35_SignalMeansAllCommitted ==
  signals > 0 => uncommitted = {}

\* C36: every pending timer of the match is held in the PhaseManager's timers
\* Map and was armed for the current phase.
C36_TimersTracked ==
  /\ leaked = << >>
  /\ \A k \in DOMAIN timers : timers[k].live => timers[k].armed = phase

\* C37: the turn counter changes only by a step that leaves a resolve phase
\* whose win check finds no winner, and then by exactly 1, after exactly one
\* reveal and one battle resolution in the turn that ends.
C37_TurnStepsResolved ==
  [][turn' # turn =>
       /\ turn' = turn + 1
       /\ phase = "resolve" /\ winResult(Cur).type = "none"
       /\ Count(tlog, "reveal") = 1 /\ Count(tlog, "resolve") = 1]_vars

\* C38: in every reachable state of a match 1 <= turn <= maxTurns.
C38_TurnInRange ==
  1 <= turn /\ turn <= maxTurns

\* the win check at the boundary of the last turn ended the match on turns
C38_Witness ==
  /\ phase = "ended" /\ turn = maxTurns /\ winner # Null
  /\ lastOp \in {"advancePhase", "phaseTimer", "leakedTimer"}
  /\ tlog # << >> /\ tlog[Len(tlog)] = "wincheck"
  /\ \A a \in DOMAIN agents : 5 * Len(agents[a].territories) < 3 * NumTerr

ArmiesOn(terr, a) ==
  SeqSum([t \in 1..NumTerr |-> IF terr[t].owner = a THEN terr[t].armies ELSE 0])

\* C39: after territory distribution, battle resolution and reinforcement
\* distribution every participant's army count equals the sum of the armies
\* on the territories it owns.
C39_ArmiesAddUp ==
  (lastOp # "createGame" /\ ~ threw /\ ~ crashed) =>
     \A a \in DOMAIN agents : agents[a].armies = ArmiesOn(territories, a)

\* C40: a commitDefaultMoves call that synthesizes a default move leaves every
\* participant's resources, army count and territory list as they were.
C40_DefaultsFrame ==
  (/\ phase = "commit" /\ ~ crashed
   /\ \E a \in DOMAIN agents : ~ agents[a].eliminated /\ ~ MapHas(moves, a)) =>
     \A x \in commitDefaultMoves(Cur) : x.agents = agents

====
